---- MODULE Spec2Model ----
(***************************************************************************)
(* DotSpot vision agent: the frame slot (_latest_frame), the video stream  *)
(* held by the agent (_video_stream), the ingest tasks (read_stream) kept   *)
(* in _tasks, and the handlers on_enter, on_track_subscribed and            *)
(* on_user_turn_completed of agents/example_agent.py and                    *)
(* agents/vision_agent.py, run by one asyncio event loop.                   *)
(* Also the session API (api/routers/sessions.py), the LiveKit rooms it    *)
(* creates and deletes (api/services/lk.py), and the workers' job filter   *)
(* should_accept_job.                                                       *)
(***************************************************************************)
EXTENDS Integers, Sequences, FiniteSets, TLC

\* ---------------------------------------------------------------- bounds
\* calls of _create_video_stream in one session
MaxStreams == 2
\* frame events delivered in one session
MaxFrames == 3
\* requests the session API receives
MaxRequests == 3
\* messages a client sends on one detection-server connection
MaxMessages == 4

\* ------------------------------------------------------------- constants
\* self._video_stream = None
NoStream == 0
\* publication.track of a publication that is not subscribed
NoTrack == "none"
\* self._latest_frame = None
NoFrame == [stream |-> 0, n |-> 0]

Agents == {"example_agent", "vision_agent"}
VideoTracks == {"camA", "camB"}
Tracks == VideoTracks \cup {"mic"}

\* a kind test that lets every track through
TrackKind_allVideo(track) == "KIND_VIDEO"

\* track.kind
TrackKind(track) == IF track \in VideoTracks THEN "KIND_VIDEO" ELSE "KIND_AUDIO"

\* remote_participant.track_publications: the tracks of a participant's
\* publications in order (NoTrack: a publication that is not subscribed)
Publications ==
    LET P == Tracks \cup {NoTrack}
    IN {<< >>} \cup {<<a>> : a \in P} \cup {<<a, b>> : a \in P, b \in P}

\* room.remote_participants at session entry, in order of discovery
Rooms ==
    {<< >>} \cup {<<p>> : p \in Publications}
            \cup {<<p, q>> : p \in Publications, q \in Publications}

VARIABLES
    agent,          \* which agent definition runs
    phase,          \* "init" (constructed), "entered" (on_enter returned),
                    \* "failed" (on_enter raised), "closed"
    latest_frame,   \* self._latest_frame
    video_stream,   \* self._video_stream: index into streams, or NoStream
    tasks,          \* self._tasks: list of task ids
    streams,        \* every rtc.VideoStream created: track, queued events, end
    task,           \* every asyncio.Task created: state, cancel request, stream iterated
    ready,          \* the event loop's FIFO of scheduled callbacks
    captured,       \* number of frame events delivered so far
    lastWrite,      \* history: the most recently completed write to the frame slot
    new_message     \* the most recent turn: what the handler appended to
                    \* new_message.content

vars == <<agent, phase, latest_frame, video_stream, tasks, streams, task,
          ready, captured, lastWrite, new_message>>

\* the variables of the agent object and of the event loop
core == <<video_stream, tasks, streams, task, ready>>

\* the session API (api/routers/sessions.py), the LiveKit server it calls
\* (api/services/lk.py) and the workers' job filter (should_accept_job)
VARIABLES
    db,             \* the committed rows of stream_sessions; the id is the index
    lk,             \* the rooms that exist on the LiveKit server
    reqs,           \* every request received: handler position and response
    clock,          \* datetime.now(UTC), as the number of commits of a stop so far
    job             \* the most recent job request and the worker's decision

api == <<db, lk, reqs, clock, job>>

\* one connection of the detection server (server/detection_server.py)
VARIABLES
    ws_in,          \* messages the client has sent that the handler has not taken
    ws_taken,       \* history: the messages `async for` has yielded, in order
    ws_out,         \* the responses websocket.send has sent, in order
    ws_pc,          \* process_frame: "recv" (in async for), "send" (in await
                    \* websocket.send), "ended"
    ws_closed       \* the client has closed the connection

det == <<ws_in, ws_taken, ws_out, ws_pc, ws_closed>>

NoWrite == [task |-> 0, frame |-> NoFrame]
NoTurn == [turn |-> FALSE, appended |-> << >>]

\* ------------------------------------------------------------- helpers
SeqRange(s) == {s[i] : i \in 1..Len(s)}

\* task.done()
Done(t) == task[t].state = "done"

\* tasks suspended in `async for` on stream s with nothing to read
Waiting(s) == {t \in 1..Len(task) : task[t].state = "waiting" /\ task[t].iter = s}

RECURSIVE SetToSeq(_)
SetToSeq(S) ==
    IF S = {} THEN << >>
    ELSE LET m == CHOOSE x \in S : \A y \in S : x <= y
         IN <<m>> \o SetToSeq(S \ {m})

\* the wake-up of the tasks in W: each gets a step scheduled
WakeTask(tk, W) ==
    [t \in 1..Len(tk) |-> IF t \in W THEN [tk[t] EXCEPT !.state = "woken"] ELSE tk[t]]
WakeReady(rd, W) ==
    rd \o [i \in 1..Cardinality(W) |-> <<"step", SetToSeq(W)[i]>>]

\* list.remove(t) if t in list
RemoveFirst(s, x) ==
    IF x \notin SeqRange(s) THEN s
    ELSE LET i == CHOOSE k \in 1..Len(s) : s[k] = x /\ \A j \in 1..(k-1) : s[j] # x
         IN SubSeq(s, 1, i-1) \o SubSeq(s, i+1, Len(s))

Init ==
    /\ agent \in Agents
    /\ phase = "init"
    /\ latest_frame = NoFrame
    /\ video_stream = NoStream
    /\ tasks = << >>
    /\ streams = << >>
    /\ task = << >>
    /\ ready = << >>
    /\ captured = 0
    /\ lastWrite = NoWrite
    /\ new_message = NoTurn
    /\ db = << >>
    /\ lk = {}
    /\ reqs = << >>
    /\ clock = 0
    /\ job = [room |-> 0, worker |-> "", accepted |-> FALSE]
    /\ ws_in = << >>
    /\ ws_taken = << >>
    /\ ws_out = << >>
    /\ ws_pc = "recv"
    /\ ws_closed = FALSE

\* ------------------------------------------------ _create_video_stream
\* the cancel loop left out
TasksToCancel_none == {}

\* a cancel loop without the task.done() test
TasksToCancel_alsoDone ==
    IF video_stream # NoStream THEN SeqRange(tasks) ELSE {}

\* `for task in self._tasks: if not task.done(): task.cancel()`, run only
\* when a stream is already held
TasksToCancel ==
    IF video_stream # NoStream
    THEN {t \in SeqRange(tasks) : ~Done(t)}
    ELSE {}

\* a cancel() that does not reach the task
TaskCancel_lost(rec) == rec

\* a cancel() that has no effect on a task that has not started to run
TaskCancel_onlyStarted(rec) ==
    IF rec.state = "created"
    THEN rec
    ELSE [rec EXCEPT !.must_cancel = TRUE,
                     !.state = IF @ = "waiting" THEN "woken" ELSE @]

\* task.cancel() on a task that is not done: the cancellation is requested
\* and delivered at the task's next step; a task suspended on a future is
\* rescheduled at once
TaskCancel(rec) ==
    [rec EXCEPT !.must_cancel = TRUE,
                !.state = IF @ = "waiting" THEN "woken" ELSE @]

\* a replacement that leaves the old tasks in the list
TasksAfterClear_keeps == tasks

\* `self._tasks.clear()` under the same condition
TasksAfterClear == IF video_stream # NoStream THEN << >> ELSE tasks

\* rtc.VideoStream(track)
NewStream(track) == [track |-> track, queue |-> << >>, ended |-> FALSE]

\* asyncio.create_task(read_stream()): s is the stream made in the same call
NewTask(s) == [state |-> "created", must_cancel |-> FALSE, iter |-> NoStream,
               made_for |-> s]

CreateVideoStream(track) ==
    LET cancelled == TasksToCancel
        woken  == {t \in cancelled : task[t].state = "waiting"}
        task1  == [t \in 1..Len(task) |->
                      IF t \in cancelled THEN TaskCancel(task[t]) ELSE task[t]]
        ready1 == WakeReady(ready, woken)
        s      == Len(streams) + 1
        new    == Len(task) + 1
    IN /\ streams' = Append(streams, NewStream(track))
       /\ video_stream' = s
       /\ task' = Append(task1, NewTask(s))
       /\ ready' = Append(ready1, <<"step", new>>)
       /\ tasks' = Append(TasksAfterClear, new)

\* ------------------------------------------------------------ on_enter
\* the video tracks of one participant's publications, in order
ParticipantVideoTracks(participant) ==
    SelectSeq(participant,
              LAMBDA tr : tr # NoTrack /\ TrackKind(tr) = "KIND_VIDEO")

\* on_enter looking at the last participant instead of the first
EntryTrack_lastParticipant(r) ==
    IF r # << >>
    THEN LET video_tracks == ParticipantVideoTracks(r[Len(r)])
         IN IF video_tracks # << >> THEN video_tracks[1] ELSE NoTrack
    ELSE NoTrack

\* on_enter taking the last video track of the first participant
EntryTrack_lastVideo(r) ==
    IF r # << >>
    THEN LET video_tracks == ParticipantVideoTracks(r[1])
         IN IF video_tracks # << >> THEN video_tracks[Len(video_tracks)] ELSE NoTrack
    ELSE NoTrack

\* the track on_enter hands to _create_video_stream, or NoTrack
EntryTrack(r) ==
    IF r # << >>
    THEN LET video_tracks == ParticipantVideoTracks(r[1])
         IN IF video_tracks # << >> THEN video_tracks[1] ELSE NoTrack
    ELSE NoTrack

\* on_enter in room r (ctx.room)
EnterRoom(r) ==
    /\ phase = "init"
    /\ IF EntryTrack(r) # NoTrack
       THEN CreateVideoStream(EntryTrack(r))
       ELSE UNCHANGED core
    /\ phase' = "entered"
    /\ UNCHANGED <<det, api, agent, latest_frame, captured, lastWrite, new_message>>

on_enter ==
    /\ phase = "init"
    /\ \E r \in Rooms : EnterRoom(r)

\* `room = self.ctx.room` in vision_agent.py: no line of the repository
\* assigns a ctx attribute to the agent (example_agent.py calls
\* get_job_context() instead), so the read either resolves through the base
\* class, and on_enter goes on as EnterRoom, or raises AttributeError before
\* on_enter has looked at the room or registered on_track_subscribed
on_enter_no_ctx ==
    /\ phase = "init"
    /\ agent = "vision_agent"
    /\ phase' = "failed"
    /\ UNCHANGED <<det, api, agent, latest_frame, captured, lastWrite, new_message>>
    /\ UNCHANGED core

\* ------------------------------------------------- on_track_subscribed
on_track_subscribed(track) ==
    /\ phase = "entered"
    /\ IF TrackKind(track) = "KIND_VIDEO"
       THEN /\ Len(streams) < MaxStreams
            /\ CreateVideoStream(track)
       ELSE UNCHANGED core
    /\ UNCHANGED <<det, api, agent, phase, latest_frame, captured, lastWrite, new_message>>

\* ---------------------------------------------- on_user_turn_completed
\* a handler that appends the note whether or not a frame is attached
TurnAppend_alsoNote(a, frame) ==
    (IF frame # NoFrame
     THEN << [type |-> IF a = "example_agent" THEN "ImageContent" ELSE "ChatImage",
              image |-> frame] >>
     ELSE << >>)
    \o << [type |-> "system_note", image |-> NoFrame] >>

\* what the handler appends to new_message.content
TurnAppend(a, frame) ==
    IF frame # NoFrame
    THEN << [type |-> IF a = "example_agent" THEN "ImageContent" ELSE "ChatImage",
             image |-> frame] >>
    ELSE IF a = "example_agent"
         THEN << [type |-> "system_note", image |-> NoFrame] >>
         ELSE << >>

\* a handler that holds the turn until the slot has a frame
on_user_turn_completed_waitsForFrame ==
    /\ phase \in {"entered", "failed"}
    /\ latest_frame # NoFrame
    /\ new_message' = [turn |-> TRUE, appended |-> TurnAppend(agent, latest_frame)]
    /\ UNCHANGED <<det, api, agent, phase, latest_frame, captured, lastWrite>>
    /\ UNCHANGED core

\* a handler that consumes the frame it attaches
on_user_turn_completed_clearsFrame ==
    /\ phase \in {"entered", "failed"}
    /\ new_message' = [turn |-> TRUE, appended |-> TurnAppend(agent, latest_frame)]
    /\ latest_frame' = NoFrame
    /\ UNCHANGED <<det, api, agent, phase, captured, lastWrite>>
    /\ UNCHANGED core

\* a handler that suspends between its test of the slot and its use of it,
\* so that a queued frame of the held stream can be written in between
on_user_turn_completed_interleaved ==
    /\ phase \in {"entered", "failed"}
    /\ \E f \in {latest_frame} \cup
                 SeqRange(IF video_stream = NoStream THEN << >>
                          ELSE streams[video_stream].queue) :
          new_message' = [turn |-> TRUE,
                          appended |-> IF latest_frame # NoFrame
                                       THEN TurnAppend(agent, f)
                                       ELSE TurnAppend(agent, NoFrame)]
    /\ UNCHANGED <<det, api, agent, phase, latest_frame, captured, lastWrite>>
    /\ UNCHANGED core

on_user_turn_completed ==
    /\ phase \in {"entered", "failed"}
    /\ new_message' = [turn |-> TRUE, appended |-> TurnAppend(agent, latest_frame)]
    /\ UNCHANGED <<det, api, agent, phase, latest_frame, captured, lastWrite>>
    /\ UNCHANGED core

\* --------------------------------------------------------- read_stream
\* the task ends (return, exception or CancelledError) without a further
\* write; its done-callback is scheduled
Finish(t) ==
    /\ task' = [task EXCEPT ![t].state = "done"]
    /\ ready' = Append(Tail(ready), <<"done_cb", t>>)
    /\ UNCHANGED <<latest_frame, lastWrite, streams>>

\* a write that keeps a frame already held
SlotWrite_keepFirst(old, frame) == IF old # NoFrame THEN old ELSE frame

\* `self._latest_frame = event.frame`: the slot after the write
SlotWrite(old, frame) == frame

\* a loop that clears the slot when its stream ends
Iterate_clearsSlotAtEnd(t, s) ==
    LET q == streams[s].queue
    IN IF q # << >>
       THEN \E k \in 1..Len(q) :
              LET rest == SubSeq(q, k + 1, Len(q))
              IN /\ latest_frame' = IF rest = << >> /\ streams[s].ended
                                    THEN NoFrame
                                    ELSE SlotWrite(latest_frame, q[k])
                 /\ lastWrite' = [task |-> t, frame |-> q[k]]
                 /\ streams' = [streams EXCEPT ![s].queue = rest]
                 /\ IF rest # << >>
                    THEN /\ task' = [task EXCEPT ![t].state = "woken", ![t].iter = s]
                         /\ ready' = Append(Tail(ready), <<"step", t>>)
                    ELSE IF streams[s].ended
                    THEN /\ task' = [task EXCEPT ![t].state = "done", ![t].iter = s]
                         /\ ready' = Append(Tail(ready), <<"done_cb", t>>)
                    ELSE /\ task' = [task EXCEPT ![t].state = "waiting", ![t].iter = s]
                         /\ ready' = Tail(ready)
       ELSE IF streams[s].ended
       THEN /\ task' = [task EXCEPT ![t].state = "done", ![t].iter = s]
            /\ ready' = Append(Tail(ready), <<"done_cb", t>>)
            /\ latest_frame' = NoFrame
            /\ UNCHANGED <<lastWrite, streams>>
       ELSE /\ task' = [task EXCEPT ![t].state = "waiting", ![t].iter = s]
            /\ ready' = Tail(ready)
            /\ UNCHANGED <<latest_frame, lastWrite, streams>>

\* a loop that starts a new ingest task when its stream ends
Iterate_retries(t, s) ==
    LET q == streams[s].queue
    IN IF q # << >>
       THEN \E k \in 1..Len(q) :
              LET rest == SubSeq(q, k + 1, Len(q))
              IN /\ latest_frame' = SlotWrite(latest_frame, q[k])
                 /\ lastWrite' = [task |-> t, frame |-> q[k]]
                 /\ streams' = [streams EXCEPT ![s].queue = rest]
                 /\ IF rest # << >>
                    THEN /\ task' = [task EXCEPT ![t].state = "woken", ![t].iter = s]
                         /\ ready' = Append(Tail(ready), <<"step", t>>)
                    ELSE IF streams[s].ended
                    THEN /\ task' = Append([task EXCEPT ![t].state = "done", ![t].iter = s],
                                            NewTask(s))
                         /\ ready' = Tail(ready) \o << <<"done_cb", t>>,
                                                       <<"step", Len(task) + 1>> >>
                    ELSE /\ task' = [task EXCEPT ![t].state = "waiting", ![t].iter = s]
                         /\ ready' = Tail(ready)
       ELSE IF streams[s].ended
       THEN /\ task' = Append([task EXCEPT ![t].state = "done", ![t].iter = s],
                               NewTask(s))
            /\ ready' = Tail(ready) \o << <<"done_cb", t>>, <<"step", Len(task) + 1>> >>
            /\ UNCHANGED <<latest_frame, lastWrite, streams>>
       ELSE /\ task' = [task EXCEPT ![t].state = "waiting", ![t].iter = s]
            /\ ready' = Tail(ready)
            /\ UNCHANGED <<latest_frame, lastWrite, streams>>

\* `async for event in <stream s>: self._latest_frame = event.frame`: the
\* loop takes k queued events without suspending, then yields, suspends on
\* the empty queue, or ends with the stream
Iterate(t, s) ==
    LET q == streams[s].queue
    IN IF q # << >>
       THEN \E k \in 1..Len(q) :
              LET rest == SubSeq(q, k + 1, Len(q))
              IN /\ latest_frame' = SlotWrite(latest_frame, q[k])
                 /\ lastWrite' = [task |-> t, frame |-> q[k]]
                 /\ streams' = [streams EXCEPT ![s].queue = rest]
                 /\ IF rest # << >>
                    THEN /\ task' = [task EXCEPT ![t].state = "woken", ![t].iter = s]
                         /\ ready' = Append(Tail(ready), <<"step", t>>)
                    ELSE IF streams[s].ended
                    THEN /\ task' = [task EXCEPT ![t].state = "done", ![t].iter = s]
                         /\ ready' = Append(Tail(ready), <<"done_cb", t>>)
                    ELSE /\ task' = [task EXCEPT ![t].state = "waiting", ![t].iter = s]
                         /\ ready' = Tail(ready)
       ELSE IF streams[s].ended
       THEN /\ task' = [task EXCEPT ![t].state = "done", ![t].iter = s]
            /\ ready' = Append(Tail(ready), <<"done_cb", t>>)
            /\ UNCHANGED <<latest_frame, lastWrite, streams>>
       ELSE /\ task' = [task EXCEPT ![t].state = "waiting", ![t].iter = s]
            /\ ready' = Tail(ready)
            /\ UNCHANGED <<latest_frame, lastWrite, streams>>

\* the stream a step of task t reads: looked up through self._video_stream
\* when the coroutine first runs, the iterator it holds afterwards
StreamOf(t) == IF task[t].state = "created" THEN video_stream ELSE task[t].iter

\* a read_stream that catches CancelledError and goes on reading
TaskStep_swallowsCancel(t) ==
    IF StreamOf(t) = NoStream
    THEN Finish(t)
    ELSE Iterate(t, StreamOf(t))

\* an event loop that lets a task cancelled before its first step run up to
\* its first suspension
TaskStep_cancelAtFirstAwait(t) ==
    IF task[t].must_cancel /\ task[t].state # "created"
    THEN Finish(t)
    ELSE IF StreamOf(t) = NoStream
    THEN Finish(t)
    ELSE Iterate(t, StreamOf(t))

\* one step of the coroutine of task t, run by the event loop: a requested
\* cancellation is raised in it, else the loop goes on
TaskStep(t) ==
    IF task[t].must_cancel
    THEN Finish(t)
    ELSE IF StreamOf(t) = NoStream
    THEN Finish(t)
    ELSE Iterate(t, StreamOf(t))

RunTaskStep ==
    /\ phase # "closed"
    /\ ready # << >>
    /\ Head(ready)[1] = "step"
    /\ TaskStep(Head(ready)[2])
    /\ UNCHANGED <<det, api, agent, phase, video_stream, tasks, captured, new_message>>

\* a callback that drops whatever task the list holds first
DoneCallback_dropsHead(t) == tasks' = IF tasks = << >> THEN tasks ELSE Tail(tasks)

\* lambda t: self._tasks.remove(t) if t in self._tasks else None
DoneCallback(t) == tasks' = RemoveFirst(tasks, t)

RunDoneCallback ==
    /\ phase # "closed"
    /\ ready # << >>
    /\ Head(ready)[1] = "done_cb"
    /\ DoneCallback(Head(ready)[2])
    /\ ready' = Tail(ready)
    /\ UNCHANGED <<det, api, agent, phase, latest_frame, video_stream, streams, task,
                   captured, lastWrite, new_message>>

\* ------------------------------------------------- the media room service
\* stream s can still be read by some task: it is the held stream, or the
\* iterator of a task that is neither done nor about to receive its
\* CancelledError. The events of any other stream are read by nothing and
\* are left out.
Readable(s) ==
    \/ s = video_stream
    \/ \E t \in 1..Len(task) : ~Done(t) /\ ~task[t].must_cancel /\ task[t].iter = s

\* a frame event of stream s is queued; a task suspended on s is woken
FrameReceived(s) ==
    /\ phase # "closed"
    /\ Readable(s)
    /\ ~streams[s].ended
    /\ captured < MaxFrames
    /\ captured' = captured + 1
    /\ streams' = [streams EXCEPT
                     ![s].queue = Append(@, [stream |-> s, n |-> captured + 1])]
    /\ task' = WakeTask(task, Waiting(s))
    /\ ready' = WakeReady(ready, Waiting(s))
    /\ UNCHANGED <<det, api, agent, phase, latest_frame, video_stream, tasks, lastWrite,
                   new_message>>

\* the frame source of stream s closes or fails: in both cases the loop of
\* the task reading it ends, by StopAsyncIteration or by the exception
StreamEnd(s) ==
    /\ phase # "closed"
    /\ Readable(s)
    /\ ~streams[s].ended
    /\ streams' = [streams EXCEPT ![s].ended = TRUE]
    /\ task' = WakeTask(task, Waiting(s))
    /\ ready' = WakeReady(ready, Waiting(s))
    /\ UNCHANGED <<det, api, agent, phase, latest_frame, video_stream, tasks, captured,
                   lastWrite, new_message>>

\* the session ends: VisionAssistant defines no on_exit or other teardown
\* hook, so the inherited no-op runs and nothing of the agent changes. The
\* model follows a session up to this point.
SessionEnd ==
    /\ phase \in {"entered", "failed"}
    /\ phase' = "closed"
    /\ UNCHANGED <<det, api, agent, latest_frame, captured, lastWrite, new_message>>
    /\ UNCHANGED core

Next ==
    \/ on_enter
    \/ on_enter_no_ctx
    \/ \E track \in Tracks : on_track_subscribed(track)
    \/ on_user_turn_completed
    \/ RunTaskStep
    \/ RunDoneCallback
    \/ \E s \in 1..Len(streams) : FrameReceived(s)
    \/ \E s \in 1..Len(streams) : StreamEnd(s)
    \/ SessionEnd

Spec == Init /\ [][Next]_vars

\* a session that stays open, with the event loop running every callback
\* it has scheduled
OpenNext ==
    \/ on_enter
    \/ on_enter_no_ctx
    \/ \E track \in Tracks : on_track_subscribed(track)
    \/ on_user_turn_completed
    \/ RunTaskStep
    \/ RunDoneCallback
    \/ \E s \in 1..Len(streams) : FrameReceived(s)
    \/ \E s \in 1..Len(streams) : StreamEnd(s)

OpenSpec ==
    /\ Init
    /\ [][OpenNext]_vars
    /\ WF_vars(RunTaskStep)
    /\ WF_vars(RunDoneCallback)

\* ===================================================================
\* Session API and job filter
\* ===================================================================
\* request.agent_id is None
None == "None"
\* values of StartSessionRequest.agent_id
AgentIds == {None, "", "vision-agent", "guide-agent"}
\* values of the workers' configured agent name
WorkerNames == {"vision-agent", "guide-agent"}

\* metadata written for every agent_id, falsy or not
RoomMetadata_verbatim(agent_id) == agent_id

\* `metadata=agent_id or ""` in create_room
RoomMetadata(agent_id) ==
    IF agent_id = None \/ agent_id = "" THEN "" ELSE agent_id

\* a filter without the backward-compatibility branch
should_accept_job_strict(worker, room_metadata) == room_metadata = worker

\* should_accept_job: whether the worker accepts the job
should_accept_job(worker, room_metadata) ==
    IF room_metadata = ""
    THEN TRUE
    ELSE room_metadata = worker

\* generate_room_name for request i: a fresh name
RoomName(i) == i

NewRequest(op, pc, agent_id, session_id, code, message) ==
    [op |-> op, pc |-> pc, agent_id |-> agent_id, session_id |-> session_id,
     code |-> code, message |-> message]

\* the handler of request i ends with this response
Respond(i, code, message) ==
    [reqs EXCEPT ![i].pc = "done", ![i].code = code, ![i].message = message]

\* room_service.create_room
CreatedRoom(i, agent_id) == [name |-> RoomName(i), metadata |-> RoomMetadata(agent_id)]

\* start_session up to the end of `await livekit.create_room(...)`: the
\* call succeeds, fails, or fails after the server has made the room
\* (lkapi.aclose() raising, a lost reply)
start_session(agent_id) ==
    LET i == Len(reqs) + 1
    IN /\ Len(reqs) < MaxRequests
       /\ \/ /\ lk' = lk \cup {CreatedRoom(i, agent_id)}
             /\ reqs' = Append(reqs, NewRequest("start", "commit", agent_id, 0, 0, ""))
          \/ /\ lk' = lk
             /\ reqs' = Append(reqs, NewRequest("start", "done", agent_id, 0, 500,
                                                "Failed to start session"))
          \/ /\ lk' = lk \cup {CreatedRoom(i, agent_id)}
             /\ reqs' = Append(reqs, NewRequest("start", "done", agent_id, 0, 500,
                                                "Failed to start session"))
       /\ UNCHANGED <<db, clock, job>>
       /\ UNCHANGED <<vars, det>>

\* the row start_session adds
NewSession(i) ==
    [room_name |-> RoomName(i), agent_id |-> reqs[i].agent_id,
     status |-> "CREATED", ended_at |-> 0]

\* `db.add(session); await db.commit()` of request i
start_session_commit(i) ==
    /\ reqs[i].op = "start" /\ reqs[i].pc = "commit"
    /\ \/ /\ db' = Append(db, NewSession(i))
          /\ reqs' = [reqs EXCEPT ![i].pc = "respond", ![i].session_id = Len(db) + 1]
       \/ /\ db' = db
          /\ reqs' = Respond(i, 500, "Failed to start session")
    /\ UNCHANGED <<lk, clock, job>>
    /\ UNCHANGED <<vars, det>>

\* `await db.refresh(session)`, create_access_token and the response
start_session_respond(i) ==
    /\ reqs[i].op = "start" /\ reqs[i].pc = "respond"
    /\ \/ reqs' = Respond(i, 200, "")
       \/ reqs' = Respond(i, 500, "Failed to start session")
    /\ UNCHANGED <<db, lk, clock, job>>
    /\ UNCHANGED <<vars, det>>

\* a stop that treats a missing row as already ended
StopLookup_missingIsEnded(session_id) ==
    IF session_id \notin 1..Len(db) THEN "ended"
    ELSE IF db[session_id].status = "ENDED" THEN "ended"
    ELSE "stop"

\* a stop that does not test the status
StopLookup_noEndedTest(session_id) ==
    IF session_id \notin 1..Len(db) THEN "missing" ELSE "stop"

\* stop_session after its select: scalar_one_or_none() found no row, a row
\* that is ENDED, or a row to stop
StopLookup(session_id) ==
    IF session_id \notin 1..Len(db) THEN "missing"
    ELSE IF db[session_id].status = "ENDED" THEN "ended"
    ELSE "stop"

\* stop_session up to the end of `await db.execute(select ...)` and the two
\* tests that follow it
stop_session(session_id) ==
    /\ Len(reqs) < MaxRequests
    /\ \/ reqs' = Append(reqs, NewRequest("stop", "done", None, session_id, 500,
                                          "Failed to stop session"))
       \/ /\ StopLookup(session_id) = "missing"
          /\ reqs' = Append(reqs, NewRequest("stop", "done", None, session_id, 404,
                                             "Session not found"))
       \/ /\ StopLookup(session_id) = "ended"
          /\ reqs' = Append(reqs, NewRequest("stop", "done", None, session_id, 200,
                                             "Session already ended"))
       \/ /\ StopLookup(session_id) = "stop"
          /\ reqs' = Append(reqs, NewRequest("stop", "commit", None, session_id, 0, ""))
    /\ UNCHANGED <<db, lk, clock, job>>
    /\ UNCHANGED <<vars, det>>

\* `session.status = ENDED; session.ended_at = now; await db.commit()`
stop_session_commit(i) ==
    /\ reqs[i].op = "stop" /\ reqs[i].pc = "commit"
    /\ \/ /\ db' = [db EXCEPT ![reqs[i].session_id].status = "ENDED",
                              ![reqs[i].session_id].ended_at = clock + 1]
          /\ clock' = clock + 1
          /\ reqs' = [reqs EXCEPT ![i].pc = "delete"]
       \/ /\ UNCHANGED <<db, clock>>
          /\ reqs' = Respond(i, 500, "Failed to stop session")
    /\ UNCHANGED <<lk, job>>
    /\ UNCHANGED <<vars, det>>

\* a delete_room whose failure fails the request
stop_session_delete_failing(i) ==
    /\ reqs[i].op = "stop" /\ reqs[i].pc = "delete"
    /\ \/ /\ lk' = {r \in lk : r.name # db[reqs[i].session_id].room_name}
          /\ reqs' = Respond(i, 200, "Session stopped successfully")
       \/ /\ lk' = lk
          /\ reqs' = Respond(i, 500, "Failed to stop session")
    /\ UNCHANGED <<db, clock, job>>
    /\ UNCHANGED <<vars, det>>

\* `await livekit.delete_room(session.room_name)` inside its own try: the
\* room is deleted, or the call fails and the failure is only printed
stop_session_delete(i) ==
    /\ reqs[i].op = "stop" /\ reqs[i].pc = "delete"
    /\ \/ lk' = {r \in lk : r.name # db[reqs[i].session_id].room_name}
       \/ lk' = lk
    /\ reqs' = Respond(i, 200, "Session stopped successfully")
    /\ UNCHANGED <<db, clock, job>>
    /\ UNCHANGED <<vars, det>>

\* a worker named `worker` receives the job request of an existing room
job_request(worker) ==
    /\ \E r \in lk :
          job' = [room |-> r.name, worker |-> worker,
                  accepted |-> should_accept_job(worker, r.metadata)]
    /\ UNCHANGED <<db, lk, reqs, clock>>
    /\ UNCHANGED <<vars, det>>

ApiNext ==
    \/ \E agent_id \in AgentIds : start_session(agent_id)
    \/ \E i \in 1..Len(reqs) : start_session_commit(i)
    \/ \E i \in 1..Len(reqs) : start_session_respond(i)
    \/ \E session_id \in 1..MaxRequests : stop_session(session_id)
    \/ \E i \in 1..Len(reqs) : stop_session_commit(i)
    \/ \E i \in 1..Len(reqs) : stop_session_delete(i)

\* the API process and the agent workers are separate programs: the API
\* specifications leave the agent's variables at their initial values
ApiInit == Init /\ agent = "example_agent"

\* the session API under start and stop requests
ApiSpec == ApiInit /\ [][ApiNext]_api

\* rooms being created by start_session and the workers being offered the
\* rooms' jobs; the steps of the handlers after create_room do not touch a
\* room's metadata and are left out
JobNext ==
    \/ \E agent_id \in AgentIds : start_session(agent_id)
    \/ \E worker \in WorkerNames : job_request(worker)

JobSpec == ApiInit /\ [][JobNext]_api

\* ===================================================================
\* Detection server: one connection handled by process_frame
\* ===================================================================
\* what a client can send: a JPEG image, or a message Image.open or the
\* model cannot process (bytes that are no image, a text message)
MessageKinds == {"jpeg", "other"}

\* the client sends its next message
ClientSend(kind) ==
    /\ ~ws_closed
    /\ Len(ws_taken) + Len(ws_in) < MaxMessages
    /\ ws_in' = Append(ws_in, [n |-> Len(ws_taken) + Len(ws_in) + 1, kind |-> kind])
    /\ UNCHANGED <<ws_taken, ws_out, ws_pc, ws_closed>>
    /\ UNCHANGED <<vars, api>>

\* the client closes the connection
ClientClose ==
    /\ ~ws_closed
    /\ ws_closed' = TRUE
    /\ UNCHANGED <<ws_in, ws_taken, ws_out, ws_pc>>
    /\ UNCHANGED <<vars, api>>

\* Image.open(BytesIO(message)) and model(image): whether they return
Decodes(message) == message.kind = "jpeg"

\* where process_frame is after the synchronous part of the loop body for
\* `message`: in `await websocket.send(...)`, or, when decoding or inference
\* raised, past the `except Exception` that encloses the whole loop
AfterFrame(message) ==
    IF Decodes(message) THEN "send" ELSE "ended"

\* `async for message in websocket` yields the next message and the body
\* runs up to its await
TakeFrame ==
    /\ ws_pc = "recv"
    /\ ws_in # << >>
    /\ ws_taken' = Append(ws_taken, Head(ws_in))
    /\ ws_in' = Tail(ws_in)
    /\ ws_pc' = AfterFrame(Head(ws_in))
    /\ UNCHANGED <<ws_out, ws_closed>>
    /\ UNCHANGED <<vars, api>>

\* the response built from the frame just processed
ResponseFor == [frame |-> ws_taken[Len(ws_taken)].n]

\* `await websocket.send(json.dumps(response))` returns, or raises
\* ConnectionClosed because the client has gone
SendResponse ==
    /\ ws_pc = "send"
    /\ IF ws_closed
       THEN /\ ws_pc' = "ended"
            /\ ws_out' = ws_out
       ELSE /\ ws_pc' = "recv"
            /\ ws_out' = Append(ws_out, ResponseFor)
    /\ UNCHANGED <<ws_in, ws_taken, ws_closed>>
    /\ UNCHANGED <<vars, api>>

\* the iteration ends: the connection is closed and nothing is left to read
EndOfConnection ==
    /\ ws_pc = "recv"
    /\ ws_closed
    /\ ws_in = << >>
    /\ ws_pc' = "ended"
    /\ UNCHANGED <<ws_in, ws_taken, ws_out, ws_closed>>
    /\ UNCHANGED <<vars, api>>

DetNext ==
    \/ \E kind \in MessageKinds : ClientSend(kind)
    \/ ClientClose
    \/ TakeFrame
    \/ SendResponse
    \/ EndOfConnection

\* the detection server is a program of its own: the other variables stay
\* at their initial values
DetSpec == ApiInit /\ [][DetNext]_det

\* ===================================================================
\* Properties
\* ===================================================================
ImageTypes == {"ImageContent", "ChatImage"}

\* the frame a turn attached, NoFrame when it attached none
AttachedFrame(msg) ==
    IF \E i \in 1..Len(msg.appended) : msg.appended[i].type \in ImageTypes
    THEN msg.appended[CHOOSE i \in 1..Len(msg.appended) :
                          msg.appended[i].type \in ImageTypes].image
    ELSE NoFrame

\* tasks created and not yet terminated
Alive == {t \in 1..Len(task) : ~Done(t)}

\* tasks that can still write to the frame slot: alive, and no
\* cancellation waiting to be raised in them
CanWrite == {t \in Alive : ~task[t].must_cancel}

\* C1: the frame a turn reads from the slot is the frame of the most
\* recently completed write, and no frame when no write has completed
C1_TurnReadsLatestWrite ==
    [][on_user_turn_completed => AttachedFrame(new_message') = lastWrite.frame]_vars

\* a turn attached frame 2 after frames 1 and 2 had been written in turn,
\* and frame 3 has been written since
C1_Witness ==
    /\ new_message.turn
    /\ AttachedFrame(new_message).n = 2
    /\ AttachedFrame(new_message).stream = 1
    /\ latest_frame = [stream |-> 1, n |-> 3]

\* C2: at most one ingest task can still write to the frame slot
C2_SingleWriter == Cardinality(CanWrite) <= 1

\* a replacement arrived before the first task ran: two tasks are alive,
\* only the second can write
C2_Witness ==
    /\ Len(task) = 2
    /\ task[1].state = "created" /\ task[1].must_cancel
    /\ CanWrite = {2}

\* C3: once a task has written to the slot, every task created before it
\* has terminated, so an old ingest never writes after its successor
C3_OldStoppedBeforeNewWrites ==
    lastWrite.task # 0 => \A t \in 1..(lastWrite.task - 1) : Done(t)

\* the first task was iterating its stream when it was replaced, and the
\* second task has written
C3_Witness ==
    /\ lastWrite.task = 2
    /\ task[1].iter = 1 /\ task[1].must_cancel

\* C4: at most one ingest task is alive at any time
C4_AtMostOneAlive == Cardinality(Alive) <= 1

\* C5: a turn handled while the slot is empty appends the fallback note
C5_EmptySlotAppendsNote ==
    [][(on_user_turn_completed /\ latest_frame = NoFrame)
        => \E i \in 1..Len(new_message'.appended) :
              new_message'.appended[i].type = "system_note"]_vars

\* C6: a turn handled while the slot holds a frame appends exactly one
\* item, the image of that frame
C6_NonEmptySlotAppendsFrameOnce ==
    [][(on_user_turn_completed /\ latest_frame # NoFrame)
        => /\ Len(new_message'.appended) = 1
           /\ new_message'.appended[1].type \in ImageTypes
           /\ new_message'.appended[1].image = latest_frame]_vars

\* a turn attached the frame the slot holds
C6_Witness ==
    /\ new_message.turn
    /\ latest_frame # NoFrame
    /\ Len(new_message.appended) = 1
    /\ new_message.appended[1].image = latest_frame

\* C7: after a running ingest has been replaced, a turn that attaches a
\* frame attaches a frame of the replacing track's stream
C7_OnlyNewTrackFrames ==
    [][(/\ on_user_turn_completed
        /\ video_stream >= 2
        /\ task[video_stream - 1].must_cancel
        /\ AttachedFrame(new_message') # NoFrame)
        => AttachedFrame(new_message').stream = video_stream]_vars

\* C8: once the session has ended, every ingest task is terminated or
\* has been asked to stop, and the frame slot is empty
C8_TeardownStopsAndClears ==
    phase = "closed" =>
        /\ \A t \in 1..Len(task) : Done(t) \/ task[t].must_cancel
        /\ latest_frame = NoFrame

\* some participant of room r has a subscribed video track
AnyVideoTrack(r) ==
    \E i \in 1..Len(r) : \E j \in 1..Len(r[i]) : r[i][j] \in VideoTracks

\* the first participant of room r has a subscribed video track
FirstHasVideo(r) ==
    r # << >> /\ \E j \in 1..Len(r[1]) : r[1][j] \in VideoTracks

\* the first subscribed video track of the first participant of room r
FirstVideoOfFirst(r) ==
    r[1][CHOOSE j \in 1..Len(r[1]) :
            /\ r[1][j] \in VideoTracks
            /\ \A k \in 1..(j - 1) : r[1][k] \notin VideoTracks]

\* number of subscribed video tracks in room r
RECURSIVE CountVideo(_)
CountVideo(p) ==
    IF p = << >> THEN 0
    ELSE (IF Head(p) \in VideoTracks THEN 1 ELSE 0) + CountVideo(Tail(p))
RECURSIVE RoomVideoCount(_)
RoomVideoCount(r) ==
    IF r = << >> THEN 0 ELSE CountVideo(Head(r)) + RoomVideoCount(Tail(r))

\* C9 as stated: if any participant present at entry has a subscribed
\* video track, an ingest task is held when on_enter returns
C9_AnyParticipantVideoStartsIngest ==
    [][phase = "init" =>
        \A r \in Rooms : (EnterRoom(r) /\ AnyVideoTrack(r))
            => video_stream' # NoStream /\ tasks' # << >>]_vars

\* C9 amended: if the first discovered participant has a subscribed
\* video track, a stream is held and one ingest task has been created and
\* scheduled when on_enter returns
C9_FirstParticipantVideoStartsIngest ==
    [][phase = "init" =>
        \A r \in Rooms : (EnterRoom(r) /\ FirstHasVideo(r))
            => /\ video_stream' # NoStream
               /\ Len(tasks') = 1
               /\ task'[tasks'[1]].state = "created"
               /\ <<"step", tasks'[1]>> \in SeqRange(ready')]_vars

\* on_enter has returned with a stream held and its task scheduled
C9_Witness ==
    /\ phase = "entered"
    /\ captured = 0
    /\ video_stream = 1
    /\ tasks = <<1>>
    /\ ready = << <<"step", 1>> >>

EndedByItself(t) == Done(t) /\ ~task[t].must_cancel /\ task[t].iter # NoStream

\* C11: a task whose frame source ends terminates and leaves the last
\* frame written in the slot; until a later task writes, the slot keeps
\* that frame and every turn attaches it
C11_SourceEndKeepsLastFrame ==
    [][\A t \in 1..Len(task) :
        /\ ~(task[t].state = "waiting" /\ streams[task[t].iter].ended)
        /\ (~Done(t) /\ task'[t].state = "done" /\ ~task[t].must_cancel)
              => latest_frame' = lastWrite'.frame
        /\ (EndedByItself(t) /\ lastWrite.task <= t)
              => /\ latest_frame = lastWrite.frame
                 /\ lastWrite'.task <= t => latest_frame' = latest_frame
                 /\ on_user_turn_completed
                       => AttachedFrame(new_message') = latest_frame]_vars

\* the source of the first stream ended after a frame was written, a
\* replacement has been subscribed but has written nothing, and a turn
\* attached the frame of the first stream
C11_Witness ==
    /\ Len(task) = 2
    /\ EndedByItself(1)
    /\ lastWrite.task = 1
    /\ new_message.turn
    /\ AttachedFrame(new_message) = latest_frame
    /\ latest_frame.stream = 1

\* a video track-available event is handled in this step
VideoTrackEvent == on_enter \/ \E tr \in VideoTracks : on_track_subscribed(tr)

\* C12: a task that has ended is never run again, and an ingest task is
\* created only by the handling of a video track-available event, one per
\* event
C12_NoRetryAfterSourceEnd ==
    [][/\ \A t \in 1..Len(task) : Done(t) => task'[t] = task[t]
       /\ Len(task') # Len(task) => VideoTrackEvent /\ Len(task') = Len(task) + 1
       /\ Len(streams') # Len(streams) => VideoTrackEvent]_vars

\* the only ingest ended with its source, its done-callback has run, and
\* the event loop is idle with no task tracked
C12_Witness ==
    /\ Len(task) = 1
    /\ EndedByItself(1)
    /\ streams[1].ended
    /\ tasks = << >>
    /\ ready = << >>

\* C13: a replacement handled after the previous task has finished sends
\* no cancel to the finished task and leaves exactly the new task created,
\* scheduled and tracked; the done-callback of a task no longer tracked
\* leaves _tasks as it is
C13_StopAfterOwnEndIsNoOp ==
    [][/\ Len(task') > Len(task)
            => /\ \A t \in 1..Len(task) : Done(t) => task'[t] = task[t]
               /\ tasks' = <<Len(task')>>
               /\ task'[Len(task')].state = "created"
               /\ <<"step", Len(task')>> \in SeqRange(ready')
       /\ (RunDoneCallback /\ Head(ready)[2] \notin SeqRange(tasks))
            => tasks' = tasks]_vars

\* the first task ended with its source, the replacement was handled
\* before its done-callback ran: the callback is pending for a task that
\* _tasks no longer holds, and the new task is the only one tracked
C13_Witness ==
    /\ Len(task) = 2
    /\ EndedByItself(1)
    /\ task[2].state = "created"
    /\ tasks = <<2>>
    /\ ready = << <<"done_cb", 1>>, <<"step", 2>> >>

\* C14: a task whose cancellation has been requested terminates, and it
\* writes no frame between the request and its termination
C14_CancelledTaskTerminates ==
    /\ \A t \in 1..MaxStreams :
          (Len(task) >= t /\ task[t].must_cancel) ~> (Len(task) >= t /\ Done(t))
    /\ [][\A t \in 1..Len(task) :
            (task[t].must_cancel /\ ~Done(t))
                => lastWrite' = lastWrite \/ lastWrite'.task # t]_vars

\* the first task was cancelled while it was reading its stream and has
\* terminated; the slot still holds a frame it wrote before the request
C14_Witness ==
    /\ Len(task) = 2
    /\ task[1].must_cancel /\ Done(1)
    /\ task[1].iter = 1
    /\ lastWrite.task = 1

\* the subscriptions the session holds open: rtc.VideoStream(track) opens one
\* when it is constructed, and no line of the agent closes a stream, so a
\* subscription stays open for as long as its source delivers
OpenSubscriptions == {s \in 1..Len(streams) : ~streams[s].ended}

\* C15: the subscription of a replaced ingest is released by the time that
\* ingest has terminated, so at most one subscription is open at any moment
C15_AtMostOneSubscription ==
    /\ Cardinality(OpenSubscriptions) <= 1
    /\ \A t \in 1..Len(task) :
          (Done(t) /\ task[t].must_cancel) => task[t].made_for \notin OpenSubscriptions

\* C16: in every state of a live session the turn handler can run to
\* completion in one step: it neither raises nor waits for a frame,
\* whatever the slot holds and whatever state the ingest tasks are in
C16_TurnAlwaysCompletes ==
    phase \in {"entered", "failed"} => ENABLED on_user_turn_completed

\* a turn completed on an empty slot while a cancelled ingest task had not
\* yet terminated
C16_Witness ==
    /\ new_message.turn
    /\ new_message.appended = TurnAppend(agent, NoFrame)
    /\ latest_frame = NoFrame
    /\ \E t \in 1..Len(task) : task[t].must_cancel /\ ~Done(t)

\* ingest tasks whose cancellation was requested and is not yet confirmed
\* by their termination
Unconfirmed == {t \in Alive : task[t].must_cancel}

\* C17: while the termination of a cancelled ingest is unconfirmed no new
\* ingest is started against the frame slot: the supervisor waits (for a
\* bounded time) and otherwise tears the session down
C17_NoIngestWhileCancelUnconfirmed ==
    [][/\ (Unconfirmed # {} /\ phase # "closed") => CanWrite = {}
       /\ Len(task') > Len(task) => \A t \in 1..Len(task) : task'[t].must_cancel => Done(t)]_vars

\* C18: a turn leaves the frame slot, the held stream and the tracked tasks
\* as they were, and a turn that follows another turn with no frame write
\* between them attaches the same frame (lastWrite is still the frame the
\* earlier turn attached, or nothing was ever written)
C18_TurnIsNonDestructiveRead ==
    [][on_user_turn_completed
         => /\ latest_frame' = latest_frame
            /\ video_stream' = video_stream
            /\ tasks' = tasks /\ task' = task
            /\ streams' = streams /\ ready' = ready
            /\ (new_message.turn /\ lastWrite.frame = AttachedFrame(new_message))
                  => new_message' = new_message]_vars

\* a turn has attached the last frame written and every ingest task has
\* ended, so the next turn follows with no write in between
C18_Witness ==
    /\ phase = "entered"
    /\ new_message.turn
    /\ lastWrite.frame # NoFrame
    /\ AttachedFrame(new_message) = lastWrite.frame
    /\ Alive = {}

\* C19: the handler's test of the slot and its use of the slot are one step
\* in which no ingest write takes place: it attaches an image exactly when
\* the slot it tested was non-empty, the image is the frame it tested, that
\* frame is the whole value of a completed write, and no step is both a
\* turn and a write
C19_TurnReadIsAtomic ==
    [][/\ on_user_turn_completed
            => /\ (latest_frame # NoFrame)
                     <=> (\E i \in 1..Len(new_message'.appended) :
                             new_message'.appended[i].type \in ImageTypes)
               /\ AttachedFrame(new_message') = latest_frame
               /\ latest_frame = lastWrite.frame
               /\ latest_frame' = latest_frame
               /\ lastWrite' = lastWrite
       /\ lastWrite' # lastWrite => new_message' = new_message]_vars

\* a turn attached the frame in the slot while the ingest task was scheduled
\* to run with a newer frame already queued
C19_Witness ==
    /\ new_message.turn
    /\ latest_frame # NoFrame
    /\ AttachedFrame(new_message) = latest_frame
    /\ \E t \in CanWrite :
          /\ task[t].state = "woken"
          /\ task[t].iter = video_stream
          /\ streams[task[t].iter].queue # << >>

\* the two states of the supervisor: no stream held and no ingest task, or
\* one stream held and exactly one ingest task running on it (a task whose
\* cancellation is pending is not counted as running)
Idle == video_stream = NoStream /\ Alive = {}

Active ==
    /\ video_stream # NoStream
    /\ Cardinality(CanWrite) = 1
    /\ \A t \in CanWrite : task[t].made_for = video_stream

\* C20: the supervisor is Idle or Active in every reachable state; after an
\* ingest's source has ended it holds no stream
C20_IdleOrActive == Idle \/ Active

\* the turn appended the fallback advisory
NoteAppended(msg) ==
    \E i \in 1..Len(msg.appended) : msg.appended[i].type = "system_note"

\* C21: once a frame has been written the slot is never empty again, and a
\* turn appends the fallback advisory exactly when no frame has ever been
\* written in the session
C21_NoteIffNoFrameEver ==
    [][/\ latest_frame # NoFrame => latest_frame' # NoFrame
       /\ lastWrite # NoWrite => latest_frame # NoFrame
       /\ on_user_turn_completed
             => (NoteAppended(new_message') <=> lastWrite = NoWrite)]_vars

\* C22: a video track_subscribed event requests the cancellation of every
\* earlier ingest task that is not done, creates exactly one new task, for
\* a stream of the subscribed track, and tracks that task alone; so the only
\* tracked task that is neither done nor cancelled is the newest one, the
\* one made for the held stream
C22_LatestTrackOwnsIngest ==
    [][/\ \A tr \in VideoTracks :
            on_track_subscribed(tr)
               => /\ Len(task') = Len(task) + 1
                  /\ Len(streams') = Len(streams) + 1
                  /\ \A t \in 1..Len(task) : ~Done(t) => task'[t].must_cancel
                  /\ ~task'[Len(task')].must_cancel
                  /\ streams'[task'[Len(task')].made_for].track = tr
                  /\ task'[Len(task')].made_for = video_stream'
                  /\ tasks' = <<Len(task')>>
       /\ \A t \in SeqRange(tasks) :
            (~Done(t) /\ ~task[t].must_cancel)
               => t = Len(task) /\ task[t].made_for = video_stream
       /\ CanWrite \subseteq SeqRange(tasks)]_vars

\* camB was subscribed after camA: the task of camA is cancelled and the
\* task of camB is the only one tracked
C22_Witness ==
    /\ Len(task) = 2
    /\ streams[1].track = "camA" /\ streams[2].track = "camB"
    /\ task[1].must_cancel
    /\ tasks = <<2>>
    /\ CanWrite = {2}
    /\ video_stream = 2

\* C23: the stream a task iterates is the stream made in the call that
\* created the task, and every frame written to the slot is a frame of the
\* stream made for the task that wrote it
C23_TaskReadsOwnStream ==
    /\ \A t \in 1..Len(task) :
          task[t].iter # NoStream => task[t].iter = task[t].made_for
    /\ lastWrite # NoWrite
          => lastWrite.frame.stream = task[lastWrite.task].made_for
    /\ \A t \in 1..Len(task) :
          (task[t].state = "created" /\ ~task[t].must_cancel)
             => video_stream = task[t].made_for

\* two tasks have run, each on the stream of its own call, and the second
\* has written a frame of the second stream
C23_Witness ==
    /\ Len(task) = 2
    /\ task[1].iter = 1 /\ task[2].iter = 2
    /\ lastWrite.task = 2
    /\ lastWrite.frame.stream = 2

\* tasks whose cancellation was requested before their first step
CancelledUnstarted == {t \in 1..Len(task) : task[t].must_cancel /\ task[t].iter = NoStream}

\* C24: a task replaced before its first step ends at that step without
\* iterating a stream or writing a frame, and no frame of the stream made
\* for it reaches the slot
C24_ReplacedBeforeFirstStep ==
    [][/\ \A t \in 1..Len(task) :
            (task[t].state = "created" /\ task[t].must_cancel)
               => /\ t \in CancelledUnstarted
                  /\ task'[t].iter = NoStream
                  /\ task'[t].state \in {"created", "done"}
                  /\ lastWrite' = lastWrite \/ lastWrite'.task # t
       /\ \A t \in CancelledUnstarted :
            /\ lastWrite.task # t
            /\ latest_frame.stream # task[t].made_for
            /\ task[t].state \in {"created", "done"}]_vars

\* the first task was replaced before it ran and has ended without reading;
\* the slot holds a frame of the second stream
C24_Witness ==
    /\ Len(task) = 2
    /\ 1 \in CancelledUnstarted
    /\ Done(1)
    /\ latest_frame.stream = 2
    /\ lastWrite.task = 2

\* C25: a track_subscribed event for a track that is not a video track
\* changes neither the held stream, the tasks, the event loop's queue nor
\* the frame slot
C25_NonVideoTrackIgnored ==
    [][\A tr \in Tracks \ VideoTracks :
          on_track_subscribed(tr)
             => /\ UNCHANGED core
                /\ latest_frame' = latest_frame
                /\ \A t \in 1..Len(task) : task'[t].must_cancel = task[t].must_cancel]_vars

\* an audio track can be subscribed while an ingest task runs on the held
\* stream and the slot holds a frame
C25_Witness ==
    /\ ENABLED on_track_subscribed("mic")
    /\ Len(streams) < MaxStreams
    /\ video_stream # NoStream
    /\ CanWrite = {video_stream}
    /\ tasks # << >>
    /\ latest_frame # NoFrame

\* C26: the agent of vision_agent.py answers every event as the agent of
\* example_agent.py does: session entry is on_enter's walk through the room
\* (EnterRoom), after entry a video track event is handled whichever agent
\* runs, and a turn on a non-empty slot attaches the frame that either agent
\* would attach. Every other step (task steps, done-callbacks, frame and
\* end-of-stream events) is the same definition for both agents.
C26_AgentsEquivalent ==
    [][/\ (phase = "init" /\ phase' # "init") => \E r \in Rooms : EnterRoom(r)
       /\ (phase \notin {"init", "closed"} /\ Len(streams) < MaxStreams)
             => \A tr \in VideoTracks : ENABLED on_track_subscribed(tr)
       /\ (on_user_turn_completed /\ latest_frame # NoFrame)
             => \A a \in Agents :
                   AttachedFrame([turn |-> TRUE,
                                  appended |-> TurnAppend(a, latest_frame)])
                      = AttachedFrame(new_message')]_vars

\* the room a job request was about, and the agent_id its session was
\* started with
JobRoom == CHOOSE r \in lk : r.name = job.room
JobAgentId == reqs[job.room].agent_id

\* C27 as stated: a worker accepts a job exactly when the room's metadata is
\* empty or equals its name, so a session started with agent_id X is
\* accepted only by the worker named X and a session started without
\* agent_id by every worker
C27_AcceptedOnlyByNamedWorker ==
    job.room # 0 =>
       /\ job.accepted <=> (JobRoom.metadata = "" \/ JobRoom.metadata = job.worker)
       /\ JobAgentId # None => (job.accepted <=> job.worker = JobAgentId)
       /\ JobAgentId = None => job.accepted

\* C27 amended: the same, with an agent_id that is the empty string counted
\* as no agent_id
C27_AcceptedOnlyByNamedWorkerNonEmpty ==
    job.room # 0 =>
       /\ job.accepted <=> (JobRoom.metadata = "" \/ JobRoom.metadata = job.worker)
       /\ JobAgentId \notin {None, ""} => (job.accepted <=> job.worker = JobAgentId)
       /\ JobAgentId \in {None, ""} => job.accepted

\* a worker has turned down the job of a session started for another agent
C27_Witness ==
    /\ job.room # 0
    /\ JobAgentId = "guide-agent"
    /\ job.worker = "vision-agent"
    /\ ~job.accepted
    /\ \E r \in lk : r.metadata = ""

\* the stop requests that found their session ENDED
StopsAlreadyEnded == {i \in 1..Len(reqs) : reqs[i].message = "Session already ended"}

\* C28: a session's status only moves from CREATED to ENDED and stays
\* ENDED; a stop request that finds its session ENDED answers 'Session
\* already ended', and one that finds no session answers 404, and neither
\* changes a row or the rooms or goes on to a commit or a room deletion
C28_EndedIsAbsorbing ==
    [][/\ \A s \in 1..Len(db) :
            /\ db[s].status \in {"CREATED", "ENDED"}
            /\ Len(db') >= s
            /\ db[s].status = "ENDED" => db'[s].status = "ENDED"
       /\ \A s \in (Len(db) + 1)..Len(db') : db'[s].status = "CREATED"
       /\ \A session_id \in 1..MaxRequests :
            stop_session(session_id)
               => LET r == reqs'[Len(reqs')]
                  IN /\ db' = db /\ lk' = lk /\ clock' = clock
                     /\ (session_id \in 1..Len(db) /\ db[session_id].status = "ENDED")
                           => \/ (r.pc = "done" /\ r.code = 200
                                    /\ r.message = "Session already ended")
                              \/ (r.pc = "done" /\ r.code = 500)
                     /\ session_id \notin 1..Len(db)
                           => \/ (r.pc = "done" /\ r.code = 404
                                    /\ r.message = "Session not found")
                              \/ (r.pc = "done" /\ r.code = 500)
       /\ \A i \in 1..Len(reqs) :
            reqs[i].pc = "done" => reqs'[i] = reqs[i]]_api

\* one stop ended session 1 and a second stop of it was told that it had
\* ended
C28_Witness ==
    /\ Len(db) = 1
    /\ db[1].status = "ENDED" /\ db[1].ended_at = 1
    /\ Len(reqs) = MaxRequests
    /\ reqs[Len(reqs)].session_id = 1
    /\ Len(reqs) \in StopsAlreadyEnded

\* the rooms of the sessions that are ENDED
EndedRooms == {db[s].room_name : s \in {x \in 1..Len(db) : db[x].status = "ENDED"}}

\* the stop requests still at work on session s
StopsInFlight(s) ==
    {i \in 1..Len(reqs) :
        reqs[i].op = "stop" /\ reqs[i].session_id = s /\ reqs[i].pc # "done"}

\* C29: once every stop request of an ENDED session has returned, the
\* session's room no longer exists
C29_EndedSessionHasNoRoom ==
    \A s \in 1..Len(db) :
       (db[s].status = "ENDED" /\ StopsInFlight(s) = {})
          => ~\E r \in lk : r.name = db[s].room_name

\* the rooms that exist and the rows that are persisted under the room name
\* of request i
RoomsOf(i) == {r \in lk : r.name = RoomName(i)}
RowsOf(i) == {s \in 1..Len(db) : db[s].room_name = RoomName(i)}

\* start requests that have completed
StartsDone == {i \in 1..Len(reqs) : reqs[i].op = "start" /\ reqs[i].pc = "done"}

\* C30: at the step in which a start_session request completes, with 200
\* or with 500, a room it created has exactly one persisted row, in status
\* CREATED, and a row it persisted belongs to a request that succeeded
C30_NoOrphanRoomOrRecord ==
    [][\A i \in StartsDone' \ StartsDone :
          /\ RoomsOf(i)' # {}
                => /\ Cardinality(RowsOf(i)') = 1
                   /\ \A s \in RowsOf(i)' : db'[s].status = "CREATED"
          /\ RowsOf(i)' # {} => reqs'[i].code = 200
          /\ reqs'[i].code = 200 => Cardinality(RowsOf(i)') = 1]_api

\* the frames the handler has taken and the responses it has sent pair up in
\* order: response i is the response to frame i
ResponsesInOrder ==
    /\ Len(ws_out) <= Len(ws_taken)
    /\ \A i \in 1..Len(ws_out) : ws_out[i].frame = ws_taken[i].n

\* a frame is taken only when every earlier frame has its response
AnsweredBeforeNext ==
    /\ Len(ws_taken) - Len(ws_out) <= 1
    /\ (ws_pc = "recv" /\ ~ws_closed) => Len(ws_out) = Len(ws_taken)

\* C31: on a connection every frame received gets exactly one response, the
\* responses are sent in the order of the frames, and a frame's response is
\* sent before the next frame is taken; so while the client keeps the
\* connection open the handler never stops with a frame it has not answered
C31_EveryFrameAnsweredInOrder ==
    /\ ResponsesInOrder
    /\ AnsweredBeforeNext
    /\ (ws_pc = "ended" /\ ~ws_closed) => Len(ws_out) = Len(ws_taken)

\* C32: _tasks never holds more than one task, every ingest task that is
\* alive and has no cancellation requested is in _tasks, and the
\* done-callback of a task removes no other task from _tasks, so the
\* callback of a replaced task leaves its successor tracked
C32_TasksListBookkeeping ==
    /\ [](Len(tasks) <= 1 /\ CanWrite \subseteq SeqRange(tasks))
    /\ [][RunDoneCallback
            => \A u \in SeqRange(tasks) :
                   u # Head(ready)[2] => u \in SeqRange(tasks')]_vars

\* the first task was cancelled by a replacement and has finished, its
\* done-callback has run, and the successor is still the one tracked task
C32_Witness ==
    /\ Len(task) = 2
    /\ task[1].must_cancel
    /\ Done(1)
    /\ <<"done_cb", 1>> \notin SeqRange(ready)
    /\ tasks = <<2>>
    /\ 2 \in CanWrite

=============================================================================
